---- MODULE Spec2Model ----
(***************************************************************************)
(* The JoystickXL report engine of joystick_xl_min/joystick.py: the        *)
(* configuration loaded from /boot_out.txt into the class attributes, the  *)
(* input state of one Joystick object, and its public operations.          *)
(***************************************************************************)
EXTENDS Integers, Sequences, FiniteSets, TLC

VARIABLES
    num_axes,        \* Joystick._num_axes (class attribute)
    num_buttons,     \* Joystick._num_buttons (class attribute)
    report_size,     \* Joystick._report_size (class attribute)
    phase,           \* "uninit", "ready" (a Joystick object exists), "failed"
    axis_states,     \* self._axis_states
    button_states,   \* self._button_states
    report,          \* self._report
    last_report,     \* self._last_report
    transmitted,     \* history: the buffer send_report last accepted, <<>> if none
    lastOp,          \* history: the call that produced this state and its outcome
    prev,            \* history: the call on the object before lastOp, in short
    nOps             \* number of calls made on the current Joystick object

vars == <<num_axes, num_buttons, report_size, phase, axis_states, button_states,
          report, last_report, transmitted, lastOp, prev, nOps>>

config == <<num_axes, num_buttons, report_size>>

(***************************************************************************)
(* Bounds of the model.                                                    *)
(***************************************************************************)
MaxOps == 2
MaxBatch == 2

(***************************************************************************)
(* inputs.py: class Axis                                                   *)
(***************************************************************************)
AxisMIN == 0
AxisMAX == 255
AxisIDLE == 128

(***************************************************************************)
(* /boot_out.txt: either unreadable, or a sequence of lines; a line is the *)
(* sequence of its whitespace-separated tokens (str.split), a token a      *)
(* sequence of characters.  The marker text is kept as one character.      *)
(***************************************************************************)
Marker == "JoystickXL"
Digits == {"0", "1", "2", "3", "4", "5", "6", "7", "8", "9"}
DigitVal == [c \in Digits |->
    CASE c = "0" -> 0 [] c = "1" -> 1 [] c = "2" -> 2 [] c = "3" -> 3
      [] c = "4" -> 4 [] c = "5" -> 5 [] c = "6" -> 6 [] c = "7" -> 7
      [] c = "8" -> 8 [] c = "9" -> 9]

Unreadable == "OSError"

\* str.isdigit(): non-empty and every character a digit
IsDigit(tok) == tok # <<>> /\ \A i \in 1..Len(tok) : tok[i] \in Digits

\* int(s) of a digit string
RECURSIVE ToInt(_)
ToInt(tok) ==
    IF tok = <<>> THEN 0
    ELSE 10 * ToInt(SubSeq(tok, 1, Len(tok) - 1)) + DigitVal[tok[Len(tok)]]

\* "JoystickXL" in line
HasMarker(line) == \E i \in 1..Len(line) : \E j \in 1..Len(line[i]) : line[i][j] = Marker

\* [int(s) for s in line.split() if s.isdigit()]
RECURSIVE LineInts(_)
LineInts(line) ==
    IF line = <<>> THEN <<>>
    ELSE (IF IsDigit(Head(line)) THEN <<ToInt(Head(line))>> ELSE <<>>)
         \o LineInts(Tail(line))

Head1 == <<"A", "d", "a">>
Mk == <<Marker>>
MkLine(a, b, c, d) == <<Head1, Mk, a, b, c, d, <<"x">>>>

BootFiles == {
    Unreadable,
    << <<Head1>> >>,
    << <<Head1>>, <<Mk, <<"6">>, <<"1", "3">>, <<"0">>>> >>,
    << MkLine(<<"2">>, <<"3">>, <<"0">>, <<"0">>) >>,
    << MkLine(<<"0">>, <<"0">>, <<"0">>, <<"1">>) >>,
    << <<Head1>>, MkLine(<<"2">>, <<"9">>, <<"0">>, <<"5">>) >>,
    << MkLine(<<"8">>, <<"3">>, <<"0">>, <<"9">>) >>,
    << MkLine(<<"2">>, <<"3">>, <<"0">>, <<"2">>) >>,
    << <<Head1, Mk, <<"0", ".", "4">>, <<"2">>, <<"9">>, <<"7">>, <<"5">>, <<"x", "6">>>>,
       MkLine(<<"8">>, <<"3">>, <<"0">>, <<"9">>) >>,
    << <<Head1>>, <<Mk, <<"6">>, <<"1", "3">>, <<"0">>, <<"2", "0">>>> >>
}

FirstMarked_Last(lines) ==
    IF \E i \in 1..Len(lines) : HasMarker(lines[i])
    THEN CHOOSE i \in 1..Len(lines) :
            HasMarker(lines[i]) /\ \A j \in (i + 1)..Len(lines) : ~HasMarker(lines[j])
    ELSE 0

\* index of the first line containing the marker, 0 if there is none
FirstMarked(lines) ==
    IF \E i \in 1..Len(lines) : HasMarker(lines[i])
    THEN CHOOSE i \in 1..Len(lines) :
            HasMarker(lines[i]) /\ \A j \in 1..(i - 1) : ~HasMarker(lines[j])
    ELSE 0

(***************************************************************************)
(* The configuration block of Joystick.__init__: the class attributes      *)
(* after it, and whether it raised.  cur = <<axes, buttons, size>> before. *)
(***************************************************************************)
LoadConfig(file, cur) ==
    IF file = Unreadable THEN [cfg |-> cur, ok |-> FALSE]
    ELSE LET m == FirstMarked(file) IN
         IF m = 0 THEN [cfg |-> cur, ok |-> cur[3] # 0]
         ELSE LET ints == LineInts(file[m]) IN
              IF Len(ints) < 4 THEN [cfg |-> cur, ok |-> FALSE]
              ELSE [cfg |-> <<ints[1], ints[2], ints[4]>>, ok |-> ints[4] # 0]

(***************************************************************************)
(* Python helpers.                                                         *)
(***************************************************************************)
\* position in a 1-based sequence of list index i of a list of length n
\* (negative indices count from the end); 0 stands for IndexError
PyIndex(n, i) ==
    IF 0 <= i /\ i < n THEN i + 1
    ELSE IF i < 0 /\ -n <= i THEN n + i + 1
    ELSE 0

RECURSIVE Pow2(_)
Pow2(k) == IF k = 0 THEN 1 ELSE 2 * Pow2(k - 1)

\* bit k of a non-negative integer
BitOf(byte, k) == (byte \div Pow2(k)) % 2

OrBit_Add(byte, k) == byte + Pow2(k)

\* byte | (1 << k)
OrBit(byte, k) == IF BitOf(byte, k) = 1 THEN byte ELSE byte + Pow2(k)

\* byte & ~(1 << k)
ClearBit(byte, k) == IF BitOf(byte, k) = 1 THEN byte - Pow2(k) ELSE byte

\* (num_buttons // 8) + bool(num_buttons % 8)
Banks(nb) == (nb \div 8) + (IF nb % 8 # 0 THEN 1 ELSE 0)

Filled_Zero(n, v) == [i \in 1..n |-> 0]

Filled(n, v) == [i \in 1..n |-> v]

(***************************************************************************)
(* Joystick._validate_axis_value and Joystick._validate_button_number:     *)
(* "none" when they return True, else the ValueError they raise.           *)
(***************************************************************************)
ValidateAxisValue_ValueFirst(axis, value) ==
    IF num_axes = 0 THEN "NoAxes"
    ELSE IF ~(AxisMIN <= value /\ value <= AxisMAX) THEN "AxisValue"
    ELSE IF axis + 1 > num_axes THEN "AxisIndex"
    ELSE "none"

ValidateAxisValue(axis, value) ==
    IF num_axes = 0 THEN "NoAxes"
    ELSE IF axis + 1 > num_axes THEN "AxisIndex"
    ELSE IF ~(AxisMIN <= value /\ value <= AxisMAX) THEN "AxisValue"
    ELSE "none"

ValidateButtonNumber_OffByOne(button) ==
    IF num_buttons = 0 THEN "NoButtons"
    ELSE IF ~(0 <= button /\ button <= num_buttons) THEN "ButtonIndex"
    ELSE "none"

ValidateButtonNumber(button) ==
    IF num_buttons = 0 THEN "NoButtons"
    ELSE IF ~(0 <= button /\ button <= num_buttons - 1) THEN "ButtonIndex"
    ELSE "none"

(***************************************************************************)
(* The loops of update_axis and update_button over the pairs of a call:    *)
(* the list after the loop, the number of pairs applied, and the exception *)
(* that ended the loop ("none" if it ran to its end).                      *)
(***************************************************************************)
RemapAxis_None(a) == a

\* reverse sequence for sliders
RemapAxis(a) == IF num_axes > 7 /\ a > 5 THEN num_axes - a + 5 ELSE a

RECURSIVE ApplyAxes(_, _, _, _)
ApplyAxes(st, batch, skip, k) ==
    IF batch = <<>> THEN [st |-> st, err |-> "none", applied |-> k]
    ELSE LET a == Head(batch)[1]
             value == Head(batch)[2]
             verr == IF skip THEN "none" ELSE ValidateAxisValue(a, value)
             pos == PyIndex(Len(st), RemapAxis(a))
         IN  IF verr # "none" THEN [st |-> st, err |-> verr, applied |-> k]
             ELSE IF pos = 0 THEN [st |-> st, err |-> "IndexError", applied |-> k]
             ELSE ApplyAxes([st EXCEPT ![pos] = value], Tail(batch), skip, k + 1)

\* a loop that passes over the pairs that fail validation
RECURSIVE ApplyButtons_PassOver(_, _, _, _)
ApplyButtons_PassOver(st, batch, skip, k) ==
    IF batch = <<>> THEN [st |-> st, err |-> "none", applied |-> k]
    ELSE LET b == Head(batch)[1]
             value == Head(batch)[2]
             verr == IF skip THEN "none" ELSE ValidateButtonNumber(b)
             bit == b % 8
             pos == PyIndex(Len(st), b \div 8)
         IN  IF verr # "none" THEN ApplyButtons_PassOver(st, Tail(batch), skip, k)
             ELSE IF pos = 0 THEN [st |-> st, err |-> "IndexError", applied |-> k]
             ELSE ApplyButtons_PassOver(
                     [st EXCEPT ![pos] = IF value THEN OrBit(@, bit) ELSE ClearBit(@, bit)],
                     Tail(batch), skip, k + 1)

RECURSIVE ApplyButtons(_, _, _, _)
ApplyButtons(st, batch, skip, k) ==
    IF batch = <<>> THEN [st |-> st, err |-> "none", applied |-> k]
    ELSE LET b == Head(batch)[1]
             value == Head(batch)[2]
             verr == IF skip THEN "none" ELSE ValidateButtonNumber(b)
             bank == b \div 8
             bit == b % 8
             pos == PyIndex(Len(st), bank)
         IN  IF verr # "none" THEN [st |-> st, err |-> verr, applied |-> k]
             ELSE IF pos = 0 THEN [st |-> st, err |-> "IndexError", applied |-> k]
             ELSE ApplyButtons(
                     [st EXCEPT ![pos] = IF value THEN OrBit(@, bit) ELSE ClearBit(@, bit)],
                     Tail(batch), skip, k + 1)

(***************************************************************************)
(* Joystick.update: the report cycle.                                      *)
(***************************************************************************)
PackInto_AxesOnly(axes, btns, rep) ==
    [i \in 1..Len(rep) |-> IF i <= Len(axes) THEN axes[i] ELSE rep[i]]

\* struct.pack_into(self._format, self._report, 0, *report_data)
PackInto(axes, btns, rep) ==
    [i \in 1..Len(rep) |->
        IF i <= Len(axes) THEN axes[i]
        ELSE IF i <= Len(axes) + Len(btns) THEN btns[i - Len(axes)]
        ELSE rep[i]]

MustSend_OnlyForcedChange(always, last, rep) == always /\ last # rep

MustSend_Every(always, last, rep) == TRUE

\* if always or self._last_report != self._report
MustSend(always, last, rep) == always \/ last # rep

UpdateCycle_NoBound(axes, btns, rep, last, always, sendOk) ==
    LET r == PackInto(axes, btns, rep) IN
    IF MustSend(always, last, r)
    THEN IF sendOk
         THEN [report |-> r, last |-> r,
               sends |-> <<[buf |-> r, ok |-> TRUE]>>, err |-> "none"]
         ELSE [report |-> r, last |-> last,
               sends |-> <<[buf |-> r, ok |-> FALSE]>>, err |-> "OSError"]
    ELSE [report |-> r, last |-> last, sends |-> <<>>, err |-> "none"]

UpdateCycle_LastOnFailure(axes, btns, rep, last, always, sendOk) ==
    IF Len(rep) < Len(axes) + Len(btns)
    THEN [report |-> rep, last |-> last, sends |-> <<>>, err |-> "StructError"]
    ELSE LET r == PackInto(axes, btns, rep) IN
         IF MustSend(always, last, r)
         THEN [report |-> r, last |-> r,
               sends |-> <<[buf |-> r, ok |-> sendOk]>>,
               err |-> IF sendOk THEN "none" ELSE "OSError"]
         ELSE [report |-> r, last |-> last, sends |-> <<>>, err |-> "none"]

\* the buffers after update(always), the send_report calls it made, and the
\* exception it raised; sendOk: whether send_report accepts the report
UpdateCycle(axes, btns, rep, last, always, sendOk) ==
    IF Len(rep) < Len(axes) + Len(btns)
    THEN [report |-> rep, last |-> last, sends |-> <<>>, err |-> "StructError"]
    ELSE LET r == PackInto(axes, btns, rep) IN
         IF MustSend(always, last, r)
         THEN IF sendOk
              THEN [report |-> r, last |-> r,
                    sends |-> <<[buf |-> r, ok |-> TRUE]>>, err |-> "none"]
              ELSE [report |-> r, last |-> last,
                    sends |-> <<[buf |-> r, ok |-> FALSE]>>, err |-> "OSError"]
         ELSE [report |-> r, last |-> last, sends |-> <<>>, err |-> "none"]

\* the buffer send_report last accepted
Accepted(before, sends) ==
    IF sends # <<>> /\ sends[Len(sends)].ok THEN sends[Len(sends)].buf ELSE before

(***************************************************************************)
(* Inputs of the calls.                                                    *)
(***************************************************************************)
\* axis indices: below the range, its ends, the slider slots, past the end
AxisIndexes == {i \in (-1)..num_axes : i <= 0 \/ i >= 5 \/ i >= num_axes - 1}
AxisValues == {AxisIDLE, 200, AxisMAX + 1}
ProbeValues == {AxisMIN - 1, AxisMIN, AxisIDLE, AxisMAX, AxisMAX + 1}
ButtonIndexes == {i \in (-1)..num_buttons : i <= 0 \/ i >= 8 \/ i >= num_buttons - 1}

AxisPairs == AxisIndexes \X AxisValues
ButtonPairs == ButtonIndexes \X BOOLEAN

\* pairs of the calls with more than one pair
AxisCore == {<<0, 200>>, <<num_axes, 200>>, <<1, AxisMAX + 1>>}
ButtonCore == {<<0, TRUE>>, <<1, FALSE>>, <<num_buttons, TRUE>>}

RECURSIVE SeqsOfLen(_, _)
SeqsOfLen(S, n) ==
    IF n = 0 THEN {<<>>}
    ELSE {<<x>> \o t : x \in S, t \in SeqsOfLen(S, n - 1)}

\* the calls tried: every single pair, validated, deferred or not; single
\* pairs with skip_validation; validated calls of up to MaxBatch pairs
Calls(pairs, known, core) ==
    {[batch |-> <<p>>, defer |-> d, skip |-> FALSE] : p \in pairs, d \in BOOLEAN}
    \cup {[batch |-> <<p>>, defer |-> FALSE, skip |-> TRUE] : p \in known}
    \cup {[batch |-> b, defer |-> FALSE, skip |-> FALSE] :
            b \in UNION {SeqsOfLen(core, n) : n \in 2..MaxBatch}}

AxisCalls == Calls(AxisPairs, AxisIndexes \X {200}, AxisCore)
ButtonCalls == Calls(ButtonPairs, ButtonIndexes \X {TRUE}, ButtonCore)

NoCall == [op |-> "none", file |-> <<>>, batch |-> <<>>, defer |-> FALSE, skip |-> FALSE,
           always |-> FALSE, cycle |-> FALSE, applied |-> 0,
           sends |-> <<>>, err |-> "none"]

\* what prev keeps of a call
Summary(call) ==
    [op |-> call.op, defer |-> call.defer,
     err |-> IF call.err \in {"none", "OSError"} THEN call.err ELSE "rejected"]

Static == {"validate_axis", "validate_button"}

(***************************************************************************)
(* State before the first Joystick() call.                                 *)
(***************************************************************************)
Init ==
    /\ num_axes = 0
    /\ num_buttons = 0
    /\ report_size = 0
    /\ phase = "uninit"
    /\ axis_states = <<>>
    /\ button_states = <<>>
    /\ report = <<>>
    /\ last_report = <<>>
    /\ transmitted = <<>>
    /\ lastOp = NoCall
    /\ prev = Summary(NoCall)
    /\ nOps = 0

\* the object of a Joystick() call that raised is never bound
Discarded(file, err, sends) ==
    /\ phase' = "failed"
    /\ axis_states' = <<>>
    /\ button_states' = <<>>
    /\ report' = <<>>
    /\ last_report' = <<>>
    /\ transmitted' = <<>>
    /\ lastOp' = [NoCall EXCEPT !.op = "construct", !.file = file,
                                !.err = err, !.sends = sends,
                                !.cycle = sends # <<>>, !.always = sends # <<>>]

(***************************************************************************)
(* Joystick.__init__                                                       *)
(***************************************************************************)
\* the process builds its Joystick objects before it operates the last one
Construct(file, device, sendOk) ==
    /\ nOps = 0
    /\ nOps' = nOps
    /\ prev' = Summary(NoCall)
    /\ LET ld == LoadConfig(file, config)
           axes == Filled(ld.cfg[1], AxisIDLE)
           btns == Filled(Banks(ld.cfg[2]), 0)
           buf == Filled(ld.cfg[3], 0)
           cyc == UpdateCycle(axes, btns, buf, buf, TRUE, sendOk)
       IN  /\ device \/ ld.ok
           /\ sendOk \/ (ld.ok /\ device /\ cyc.sends # <<>>)
           /\ num_axes' = ld.cfg[1]
           /\ num_buttons' = ld.cfg[2]
           /\ report_size' = ld.cfg[3]
           /\ IF ~ld.ok THEN Discarded(file, "ConfigError", <<>>)
              ELSE IF ~device THEN Discarded(file, "NoDevice", <<>>)
              ELSE IF cyc.err = "StructError" THEN Discarded(file, "StructError", <<>>)
              \* except OSError: time.sleep(1) -- the module does not import time
              ELSE IF cyc.err = "OSError" THEN Discarded(file, "NameError", cyc.sends)
              ELSE /\ phase' = "ready"
                   /\ axis_states' = axes
                   /\ button_states' = btns
                   /\ report' = cyc.report
                   /\ last_report' = cyc.last
                   /\ transmitted' = Accepted(<<>>, cyc.sends)
                   /\ lastOp' = [NoCall EXCEPT !.op = "construct", !.file = file,
                                               !.always = TRUE,
                                               !.cycle = TRUE, !.sends = cyc.sends]

\* a call that ran no report cycle
NoCycle == [report |-> report, last |-> last_report, sends |-> <<>>, err |-> "none"]

\* the end of every call on the object: the lists and buffers it leaves, and
\* the exception it raised (that of the loop, else that of the report cycle)
Called(call, axes, btns, cyc, sendOk) ==
    /\ phase = "ready"
    /\ nOps < MaxOps
    /\ sendOk \/ cyc.sends # <<>>
    /\ nOps' = nOps + 1
    /\ axis_states' = axes
    /\ button_states' = btns
    /\ report' = cyc.report
    /\ last_report' = cyc.last
    /\ transmitted' = Accepted(transmitted, cyc.sends)
    /\ lastOp' = [call EXCEPT !.sends = cyc.sends,
                              !.err = IF call.err # "none" THEN call.err ELSE cyc.err]
    /\ prev' = IF lastOp.op \in Static THEN prev ELSE Summary(lastOp)
    /\ UNCHANGED <<num_axes, num_buttons, report_size, phase>>

(***************************************************************************)
(* Joystick.update                                                         *)
(***************************************************************************)
Update(always, sendOk) ==
    Called([NoCall EXCEPT !.op = "update", !.always = always, !.cycle = TRUE],
           axis_states, button_states,
           UpdateCycle(axis_states, button_states, report, last_report, always, sendOk),
           sendOk)

ResetAll_Unforced(sendOk) ==
    Called([NoCall EXCEPT !.op = "reset_all", !.always = FALSE, !.cycle = TRUE],
           Filled(Len(axis_states), AxisIDLE), Filled(Len(button_states), 0),
           UpdateCycle(Filled(Len(axis_states), AxisIDLE), Filled(Len(button_states), 0),
                       report, last_report, FALSE, sendOk),
           sendOk)

(***************************************************************************)
(* Joystick.reset_all                                                      *)
(***************************************************************************)
ResetAll(sendOk) ==
    Called([NoCall EXCEPT !.op = "reset_all", !.always = TRUE, !.cycle = TRUE],
           Filled(Len(axis_states), AxisIDLE), Filled(Len(button_states), 0),
           UpdateCycle(Filled(Len(axis_states), AxisIDLE), Filled(Len(button_states), 0),
                       report, last_report, TRUE, sendOk),
           sendOk)

AfterLoop_IgnoreDefer(op, batch, defer, skip, sendOk, axes, btns, r) ==
    Called([NoCall EXCEPT !.op = op, !.batch = batch, !.defer = defer, !.skip = skip,
                          !.cycle = (r.err = "none"),
                          !.applied = r.applied, !.err = r.err],
           axes, btns,
           IF r.err = "none"
           THEN UpdateCycle(axes, btns, report, last_report, FALSE, sendOk)
           ELSE NoCycle,
           sendOk)

AfterLoop_CycleOnError(op, batch, defer, skip, sendOk, axes, btns, r) ==
    Called([NoCall EXCEPT !.op = op, !.batch = batch, !.defer = defer, !.skip = skip,
                          !.cycle = ~defer,
                          !.applied = r.applied, !.err = r.err],
           axes, btns,
           IF ~defer
           THEN UpdateCycle(axes, btns, report, last_report, FALSE, sendOk)
           ELSE NoCycle,
           sendOk)

\* update_axis and update_button after their loop (r: what the loop left):
\* if not defer: self.update()
AfterLoop(op, batch, defer, skip, sendOk, axes, btns, r) ==
    Called([NoCall EXCEPT !.op = op, !.batch = batch, !.defer = defer, !.skip = skip,
                          !.cycle = (r.err = "none" /\ ~defer),
                          !.applied = r.applied, !.err = r.err],
           axes, btns,
           IF r.err = "none" /\ ~defer
           THEN UpdateCycle(axes, btns, report, last_report, FALSE, sendOk)
           ELSE NoCycle,
           sendOk)

AxisLoop(batch, defer, skip, sendOk, r) ==
    AfterLoop("update_axis", batch, defer, skip, sendOk, r.st, button_states, r)

ButtonLoop(batch, defer, skip, sendOk, r) ==
    AfterLoop("update_button", batch, defer, skip, sendOk, axis_states, r.st, r)

(***************************************************************************)
(* Joystick.update_axis                                                    *)
(***************************************************************************)
UpdateAxis(batch, defer, skip, sendOk) ==
    AxisLoop(batch, defer, skip, sendOk, ApplyAxes(axis_states, batch, skip, 0))

(***************************************************************************)
(* Joystick.update_button                                                  *)
(***************************************************************************)
UpdateButton(batch, defer, skip, sendOk) ==
    ButtonLoop(batch, defer, skip, sendOk, ApplyButtons(button_states, batch, skip, 0))

(***************************************************************************)
(* Direct calls of the two static validation methods; what they return     *)
(* depends on the class attributes alone, so they are tried on the object  *)
(* as constructed.                                                         *)
(***************************************************************************)
ValidateAxis(axis, value) ==
    /\ phase = "ready"
    /\ nOps = 0
    /\ UNCHANGED <<num_axes, num_buttons, report_size, phase, nOps, transmitted, prev>>
    /\ UNCHANGED <<axis_states, button_states, report, last_report>>
    /\ lastOp' = [NoCall EXCEPT !.op = "validate_axis", !.batch = << <<axis, value>> >>,
                                !.err = ValidateAxisValue(axis, value)]

ValidateButton(button) ==
    /\ phase = "ready"
    /\ nOps = 0
    /\ UNCHANGED <<num_axes, num_buttons, report_size, phase, nOps, transmitted, prev>>
    /\ UNCHANGED <<axis_states, button_states, report, last_report>>
    /\ lastOp' = [NoCall EXCEPT !.op = "validate_button", !.batch = << <<button>> >>,
                                !.err = ValidateButtonNumber(button)]

Next ==
    \/ \E file \in BootFiles, device \in BOOLEAN, sendOk \in BOOLEAN :
          Construct(file, device, sendOk)
    \/ \E always \in BOOLEAN, sendOk \in BOOLEAN : Update(always, sendOk)
    \/ \E sendOk \in BOOLEAN : ResetAll(sendOk)
    \/ \E c \in AxisCalls, sendOk \in BOOLEAN : UpdateAxis(c.batch, c.defer, c.skip, sendOk)
    \/ \E c \in ButtonCalls, sendOk \in BOOLEAN : UpdateButton(c.batch, c.defer, c.skip, sendOk)
    \/ \E axis \in AxisIndexes, value \in ProbeValues : ValidateAxis(axis, value)
    \/ \E button \in ButtonIndexes : ValidateButton(button)

Spec == Init /\ [][Next]_vars

(***************************************************************************)
(* Properties.                                                             *)
(***************************************************************************)
\* a step that is a call on the object (update, reset_all, update_axis,
\* update_button)
IsCall == nOps' = nOps + 1

\* the report of the idle state under the loaded configuration
IdleReport == [i \in 1..report_size |-> IF i <= num_axes THEN AxisIDLE ELSE 0]

\* the slot the specification gives axis index i (0-based)
SpecSlot(i) == IF num_axes > 7 /\ i > 5 THEN num_axes - i + 5 ELSE i

\* a call of one pair, and that pair
OnePair(call) == Len(call.batch) = 1
Index(call) == call.batch[1][1]
Value(call) == call.batch[1][2]

\* the stored input state is what the host was last sent
InSync == PackInto(axis_states, button_states, report) = last_report

\* C1: a report cycle calls send_report exactly when it is forced or the fresh
\* serialization differs from last_report, and at most once; an accepted
\* report becomes last_report, otherwise last_report is unchanged; so
\* last_report is always the report send_report last accepted.
C1_ReportCycle ==
    /\ [][IsCall =>
            LET fresh == PackInto(axis_states', button_states', report)
                sends == lastOp'.sends
            IN  /\ Len(sends) <= 1
                /\ lastOp'.cycle =>
                      ((sends # <<>>) <=> (lastOp'.always \/ fresh # last_report))
                /\ ~lastOp'.cycle => sends = <<>>
                /\ \A i \in 1..Len(sends) : sends[i].buf = fresh
                /\ IF sends # <<>> /\ sends[1].ok
                   THEN last_report' = sends[1].buf
                   ELSE last_report' = last_report]_vars
    /\ [](phase = "ready" => last_report = transmitted)

C1_Witness ==
    /\ phase = "ready" /\ nOps = 2
    /\ lastOp.op = "update_axis" /\ lastOp.cycle /\ ~lastOp.always
    /\ Len(lastOp.sends) = 1 /\ lastOp.sends[1].ok
    /\ last_report = lastOp.sends[1].buf
    /\ last_report # IdleReport

\* a call update_axis((i, v)) with defer=False, i a valid index and v the
\* value the axis already holds
SameValueCall ==
    /\ IsCall
    /\ lastOp'.op = "update_axis" /\ ~lastOp'.defer /\ OnePair(lastOp')
    /\ Index(lastOp') \in 0..(num_axes - 1)
    /\ Value(lastOp') \in 0..255
    /\ Value(lastOp') = axis_states[SpecSlot(Index(lastOp')) + 1]

\* a call (or the construction) that raised nothing and named no negative index
CleanCall(call) ==
    /\ call.err = "none"
    /\ \A j \in 1..Len(call.batch) : call.batch[j][1] >= 0

\* C2 as stated: in every reachable state, after update_axis, update_button
\* and reset_all calls, deferred or not, update_axis with defer=False and one
\* valid pair whose value is the axis's current value does not call
\* send_report.  (Stated for the states a successful call has left.)
C2_Original == [][SameValueCall /\ CleanCall(lastOp) => lastOp'.sends = <<>>]_vars

\* C2 as amended: the same, in the states whose stored input state
\* serializes to last_report (no deferred, rejected or unsent change pending).
C2_ChangeSuppression == [][SameValueCall /\ InSync => lastOp'.sends = <<>>]_vars

C2_Witness ==
    /\ nOps = 2 /\ prev.op = "update_axis" /\ prev.err = "none" /\ ~prev.defer
    /\ lastOp.op = "update_axis" /\ ~lastOp.defer /\ OnePair(lastOp)
    /\ Index(lastOp) = 0 /\ Value(lastOp) = 200
    /\ lastOp.cycle /\ lastOp.sends = <<>>
    /\ last_report[1] = 200

\* C3: reset_all leaves every axis at 128 and every button byte at 0 and calls
\* send_report exactly once, with the idle report, also when that report is
\* what was last sent: so do two reset_all calls in a row.
C3_ResetAll ==
    lastOp.op = "reset_all" =>
        /\ Len(axis_states) = num_axes
        /\ \A i \in 1..Len(axis_states) : axis_states[i] = 128
        /\ \A i \in 1..Len(button_states) : button_states[i] = 0
        /\ Len(lastOp.sends) = 1
        /\ lastOp.sends[1].buf = IdleReport

C3_Witness ==
    /\ prev.op = "reset_all" /\ prev.err = "none"
    /\ lastOp.op = "reset_all" /\ lastOp.err = "none"
    /\ num_axes > 0
    /\ Len(lastOp.sends) = 1 /\ lastOp.sends[1].ok
    /\ last_report = IdleReport

\* C4: update_axis((i, v)) with defer=False, 0 <= i < num_axes and v in
\* 0..255, makes the report byte at slot s equal to v, where
\* s = num_axes - i + 5 if num_axes > 7 and i > 5, else s = i; every other
\* axis slot and every button byte keeps its value.
C4_AxisSlot ==
    [][(/\ IsCall
        /\ lastOp'.op = "update_axis" /\ ~lastOp'.defer /\ OnePair(lastOp')
        /\ Index(lastOp') \in 0..(num_axes - 1)
        /\ Value(lastOp') \in 0..255)
       => LET s == SpecSlot(Index(lastOp')) IN
          /\ axis_states'[s + 1] = Value(lastOp')
          /\ report'[s + 1] = Value(lastOp')
          /\ Len(axis_states') = Len(axis_states)
          /\ \A j \in 1..Len(axis_states) : j # s + 1 => axis_states'[j] = axis_states[j]
          /\ button_states' = button_states]_vars

C4_Witness ==
    /\ num_axes = 8
    /\ lastOp.op = "update_axis" /\ ~lastOp.defer /\ lastOp.batch = << <<7, 200>> >>
    /\ axis_states[7] = 200 /\ report[7] = 200
    /\ axis_states[8] = 128

\* C5: update_button((i, p)) with 0 <= i < num_buttons sets bit i mod 8 of
\* button byte i div 8 to p and leaves every other bit of every button byte
\* and every axis value unchanged.
C5_ButtonBit ==
    [][(/\ IsCall
        /\ lastOp'.op = "update_button" /\ OnePair(lastOp')
        /\ Index(lastOp') \in 0..(num_buttons - 1))
       => LET i == Index(lastOp') IN
          /\ Len(button_states') = Len(button_states)
          /\ \A b \in 1..Len(button_states) : \A k \in 0..7 :
                BitOf(button_states'[b], k) =
                    IF b = (i \div 8) + 1 /\ k = i % 8
                    THEN (IF Value(lastOp') THEN 1 ELSE 0)
                    ELSE BitOf(button_states[b], k)
          /\ \A b \in 1..Len(button_states) : button_states'[b] \in 0..255
          /\ axis_states' = axis_states]_vars

C5_Witness ==
    /\ num_buttons >= 9
    /\ lastOp.op = "update_button" /\ lastOp.batch = << <<8, TRUE>> >>
    /\ button_states[2] = 1
    /\ button_states[1] = 1

\* the error the specification gives a pair: validate_axis, validate_button
SpecAxisError(p) ==
    IF num_axes = 0 THEN "NoAxes"
    ELSE IF p[1] >= num_axes THEN "AxisIndex"
    ELSE IF p[2] < 0 \/ p[2] > 255 THEN "AxisValue"
    ELSE "none"

SpecButtonError(p) ==
    IF num_buttons = 0 THEN "NoButtons"
    ELSE IF p[1] >= num_buttons THEN "ButtonIndex"
    ELSE "none"

SpecError(call, p) ==
    IF call.op = "update_axis" THEN SpecAxisError(p) ELSE SpecButtonError(p)

\* position of the first pair of the call the specification rejects, 0 if none
FirstInvalid(call) ==
    LET bad == {k \in 1..Len(call.batch) : SpecError(call, call.batch[k]) # "none"}
    IN  IF bad = {} THEN 0 ELSE CHOOSE k \in bad : \A j \in bad : k <= j

\* the last of the first n pairs of the batch that writes index i, 0 if none
LastWrite(batch, n, i) ==
    LET ws == {k \in 1..n : batch[k][1] = i}
    IN  IF ws = {} THEN 0 ELSE CHOOSE k \in ws : \A j \in ws : j <= k

\* the axis list holds the first n pairs of the batch and else what old held
AxesHold(new, old, batch, n) ==
    /\ Len(new) = Len(old)
    /\ \A i \in 0..(Len(old) - 1) :
          LET ws == {k \in 1..n : SpecSlot(batch[k][1]) = i}
              w == IF ws = {} THEN 0 ELSE CHOOSE k \in ws : \A j \in ws : j <= k
          IN  new[i + 1] = IF w = 0 THEN old[i + 1] ELSE batch[w][2]

\* the button bytes hold the first n pairs of the batch and else what old held
ButtonsHold(new, old, batch, n) ==
    /\ Len(new) = Len(old)
    /\ \A i \in 0..(8 * Len(old) - 1) :
          LET w == LastWrite(batch, n, i)
          IN  BitOf(new[(i \div 8) + 1], i % 8) =
                 IF w = 0 THEN BitOf(old[(i \div 8) + 1], i % 8)
                 ELSE (IF batch[w][2] THEN 1 ELSE 0)

\* C6: when update_axis or update_button runs with skip_validation=False and
\* pair k is the first invalid pair of the call, the call fails with that
\* pair's error, the pairs before k are applied and stay applied, and no pair
\* at or after k is applied.
C6_FailFast ==
    [][(/\ IsCall
        /\ lastOp'.op \in {"update_axis", "update_button"}
        /\ ~lastOp'.skip
        /\ FirstInvalid(lastOp') > 0
        /\ \A j \in 1..(FirstInvalid(lastOp') - 1) : lastOp'.batch[j][1] >= 0)
       => LET k == FirstInvalid(lastOp')
              batch == lastOp'.batch
          IN  /\ lastOp'.err = SpecError(lastOp', batch[k])
              /\ lastOp'.applied = k - 1
              /\ IF lastOp'.op = "update_axis"
                 THEN /\ AxesHold(axis_states', axis_states, batch, k - 1)
                      /\ button_states' = button_states
                 ELSE /\ ButtonsHold(button_states', button_states, batch, k - 1)
                      /\ axis_states' = axis_states]_vars

C6_Witness ==
    /\ num_buttons > 0
    /\ lastOp.op = "update_button" /\ ~lastOp.skip
    /\ lastOp.batch = << <<0, TRUE>>, <<num_buttons, TRUE>> >>
    /\ lastOp.err = "ButtonIndex" /\ lastOp.applied = 1
    /\ BitOf(button_states[1], 0) = 1
    /\ prev.op = "construct"

\* C7: _validate_axis_value(axis, value) raises "no axes" if num_axes = 0,
\* else "index" if axis >= num_axes, else "value" if value is outside 0..255,
\* and returns True otherwise; it changes nothing.
C7_ValidateAxis ==
    [][(lastOp'.op = "validate_axis" /\ nOps' = nOps)
       => /\ lastOp'.err = SpecAxisError(lastOp'.batch[1])
          /\ UNCHANGED <<num_axes, num_buttons, report_size, phase>>
          /\ UNCHANGED <<axis_states, button_states, report, last_report, transmitted>>]_vars

C7_Witness ==
    /\ lastOp.op = "validate_axis"
    /\ num_axes > 0 /\ Index(lastOp) = num_axes /\ Value(lastOp) = 256
    /\ lastOp.err = "AxisIndex"

\* C8: _validate_button_number(button) raises "no buttons" if
\* num_buttons = 0, else "index" if button >= num_buttons, and returns True
\* for every button in 0..num_buttons-1; it changes nothing.
C8_ValidateButton ==
    [][(lastOp'.op = "validate_button" /\ nOps' = nOps)
       => /\ IF num_buttons = 0 THEN lastOp'.err = "NoButtons"
             ELSE IF Index(lastOp') >= num_buttons THEN lastOp'.err = "ButtonIndex"
             ELSE Index(lastOp') \in 0..(num_buttons - 1) => lastOp'.err = "none"
          /\ UNCHANGED <<num_axes, num_buttons, report_size, phase>>
          /\ UNCHANGED <<axis_states, button_states, report, last_report, transmitted>>]_vars

C8_Witness ==
    /\ lastOp.op = "validate_button"
    /\ num_buttons > 0 /\ Index(lastOp) = num_buttons
    /\ lastOp.err = "ButtonIndex"

\* C9: a Joystick() call that returns leaves every axis at 128, every button
\* byte at 0, both buffers of length report_size, and has called send_report
\* exactly once, with the idle report; no call runs on an object before that.
C9_Constructed ==
    /\ (lastOp.op = "construct" /\ phase = "ready") =>
          /\ Len(axis_states) = num_axes
          /\ \A i \in 1..Len(axis_states) : axis_states[i] = 128
          /\ Len(button_states) = Banks(num_buttons)
          /\ \A i \in 1..Len(button_states) : button_states[i] = 0
          /\ Len(report) = report_size /\ Len(last_report) = report_size
          /\ Len(lastOp.sends) = 1
          /\ lastOp.sends[1].ok /\ lastOp.sends[1].buf = IdleReport
          /\ nOps = 0
    /\ nOps > 0 => phase = "ready"

C9_Witness ==
    /\ lastOp.op = "construct" /\ phase = "ready"
    /\ num_axes = 2 /\ num_buttons = 9 /\ report_size = 5
    /\ last_report = <<128, 128, 0, 0, 0>>

\* C10: Joystick() fails whenever the loaded configuration has num_axes = 0
\* and num_buttons = 0: no object with zero inputs exists.
C10_NoZeroInputEngine == phase = "ready" => ~(num_axes = 0 /\ num_buttons = 0)

\* C11: if the first send_report of Joystick() fails, reset_all is tried
\* exactly once more: send_report is then called twice, and the construction
\* succeeds in the idle state if the second call is accepted and fails if not.
\* Stated for configurations with at least one axis.
C11_RetryOnce ==
    (lastOp.op = "construct" /\ num_axes > 0
        /\ lastOp.sends # <<>> /\ ~lastOp.sends[1].ok) =>
        /\ Len(lastOp.sends) = 2
        /\ lastOp.sends[2].buf = IdleReport
        /\ lastOp.sends[2].ok => (phase = "ready" /\ last_report = IdleReport)
        /\ ~lastOp.sends[2].ok => phase = "failed"

\* the integers of a line, in order of appearance
SpecInts(line) ==
    LET toks == SelectSeq(line, IsDigit) IN [i \in 1..Len(toks) |-> ToInt(toks[i])]

\* the lines of a readable file that contain the marker
SpecMarked(file) == {i \in 1..Len(file) : HasMarker(file[i])}

\* the line the specification reads the configuration from
SpecLine(file) == file[CHOOSE i \in SpecMarked(file) : \A j \in SpecMarked(file) : i <= j]

Loaded == lastOp.op = "construct" /\ lastOp.file # Unreadable /\ SpecMarked(lastOp.file) # {}

\* C12: a load takes the first line containing the marker and sets the axis
\* count, the button count and the report length to the 1st, 2nd and 4th of
\* that line's integers; the third integer and the lines after the first
\* matching one have no influence (6 13 0 20 gives 6 axes, 13 buttons, 20 bytes).
C12_FirstMarkerLine ==
    Loaded =>
        LET ints == SpecInts(SpecLine(lastOp.file)) IN
        Len(ints) >= 4 =>
            /\ config = <<ints[1], ints[2], ints[4]>>
            /\ SubSeq(ints, 1, 4) = <<6, 13, 0, 20>> => config = <<6, 13, 20>>

C12_Witness ==
    /\ Loaded /\ phase = "ready"
    /\ Cardinality(SpecMarked(lastOp.file)) = 2
    /\ SpecInts(SpecLine(lastOp.file))[3] # 0
    /\ config = <<2, 9, 5>>

\* the cases in which the specification makes a load fail
SpecLoadFails(file) ==
    \/ file = Unreadable
    \/ SpecMarked(file) = {}
    \/ Len(SpecInts(SpecLine(file))) < 4
    \/ SpecInts(SpecLine(file))[4] = 0

\* C13: every load, a load after an earlier successful one included, fails
\* with the configuration error when the file cannot be read, no line holds
\* the marker, the first marker line has fewer than four integers or the
\* report length it gives is zero.  Stated for the load of a construction
\* that follows a successful construction with at least one axis: such a
\* construction raises and yields no engine.
C13_LoadFailure ==
    [][(/\ phase = "ready" /\ nOps = 0 /\ num_axes > 0
        /\ lastOp'.op = "construct" /\ SpecLoadFails(lastOp'.file)) =>
            (lastOp'.err # "none" /\ phase' = "failed")]_vars

\* the serialization of the stored inputs: the axis values, then the button
\* bytes, then zeros up to the report length
SpecReport ==
    [i \in 1..report_size |->
        IF i <= num_axes THEN axis_states[i]
        ELSE IF i <= num_axes + Banks(num_buttons) THEN button_states[i - num_axes]
        ELSE 0]

\* C14 as stated: between any two calls of update_axis, update_button and
\* reset_all the report buffer is the serialization of the stored inputs;
\* stated for the states left by a call that raised nothing and names no
\* negative index.
C14_Original == (phase = "ready" /\ CleanCall(lastOp)) => report = SpecReport

\* C14: the report buffer is the serialization of the stored inputs after the
\* construction and after every call that ran a report cycle (reset_all,
\* update, update_axis and update_button with defer=False whose pairs all
\* passed), whether send_report accepted the report or not; a deferred or
\* rejected call leaves the buffer as the last report cycle wrote it.
C14_SerializedByCycle ==
    [][/\ (lastOp'.op = "construct" /\ phase' = "ready") => report' = SpecReport'
       /\ IsCall => IF lastOp'.cycle THEN report' = SpecReport' ELSE report' = report]_vars

C14_Witness ==
    /\ phase = "ready" /\ nOps = 2
    /\ prev.defer /\ prev.err = "none" /\ prev.op = "update_axis"
    /\ lastOp.op = "update_button" /\ lastOp.cycle /\ lastOp.err = "OSError"
    /\ report = SpecReport /\ report # IdleReport /\ report # last_report

\* a step that is a call of update_axis or update_button
IsInputCall == IsCall /\ lastOp'.op \in {"update_axis", "update_button"}

\* C15: update_axis and update_button with defer=True never call send_report
\* and leave last_report unchanged; the next such call with defer=False that
\* succeeds calls send_report at most once, with the serialization of all the
\* stored inputs: the deferred changes (the axis value of a deferred
\* update_axis before an update_button, for one) and its own.
C15_Deferred ==
    [][IsInputCall =>
        /\ lastOp'.defer =>
              /\ lastOp'.sends = <<>>
              /\ last_report' = last_report
              /\ transmitted' = transmitted
        /\ (~lastOp'.defer /\ lastOp'.err = "none") =>
              /\ Len(lastOp'.sends) <= 1
              /\ SpecReport' # last_report => Len(lastOp'.sends) = 1
              /\ \A i \in 1..Len(lastOp'.sends) :
                    /\ lastOp'.sends[i].buf = SpecReport'
                    /\ (/\ lastOp.op = "update_axis" /\ lastOp.defer /\ lastOp.err = "none"
                        /\ OnePair(lastOp) /\ Index(lastOp) \in 0..(num_axes - 1)
                        /\ lastOp'.op = "update_button") =>
                          lastOp'.sends[i].buf[SpecSlot(Index(lastOp)) + 1] = Value(lastOp)]_vars

C15_Witness ==
    /\ phase = "ready" /\ nOps = 2
    /\ prev.op = "update_axis" /\ prev.defer /\ prev.err = "none"
    /\ lastOp.op = "update_button" /\ ~lastOp.defer /\ lastOp.err = "none"
    /\ lastOp.batch = << <<0, TRUE>> >>
    /\ Len(lastOp.sends) = 1
    /\ lastOp.sends[1].buf[1] = 200
    /\ lastOp.sends[1].buf[num_axes + 1] = 1
    /\ last_report = lastOp.sends[1].buf

\* the bits of the final button byte that stand for no button
SpecSpare(nb) == {k \in 0..7 : 8 * (Banks(nb) - 1) + k >= nb}

\* the wire format of a report for the given inputs and configuration
SpecWireFormat(buf, axes, btns, na, nb, size) ==
    /\ Len(buf) = size
    /\ \A i \in 1..na : buf[i] = axes[i] /\ buf[i] \in 0..255
    /\ \A j \in 1..Banks(nb) : buf[na + j] = btns[j] /\ buf[na + j] \in 0..255
    /\ Banks(nb) > 0 => \A k \in SpecSpare(nb) : BitOf(buf[na + Banks(nb)], k) = 0
    /\ \A i \in (na + Banks(nb) + 1)..size : buf[i] = 0

\* no stored bit stands for a button that does not exist, and the report
\* buffer is zero past the button bytes
SpecClean ==
    /\ Banks(num_buttons) > 0 =>
          \A k \in SpecSpare(num_buttons) : BitOf(button_states[Banks(num_buttons)], k) = 0
    /\ \A i \in (num_axes + Banks(num_buttons) + 1)..report_size : report[i] = 0

\* C16: along reset_all and validated (skip_validation=False) calls every
\* report handed to send_report has the report length, holds the axis bytes
\* and then the button bytes, has the bits of the final button byte that
\* stand for no button equal to 0, and is 0 in every byte after the button
\* bytes.  By induction: the construction sends such a report and leaves a
\* clean state, and every such call from a clean state does too.
C16_WireFormat ==
    [][((lastOp'.op = "construct" /\ phase' = "ready") \/ (IsCall /\ ~lastOp'.skip /\ SpecClean)) =>
        /\ SpecClean'
        /\ \A i \in 1..Len(lastOp'.sends) :
              SpecWireFormat(lastOp'.sends[i].buf, axis_states', button_states',
                             num_axes', num_buttons', report_size')]_vars

C16_Witness ==
    /\ phase = "ready" /\ config = <<2, 9, 5>>
    /\ lastOp.op = "update_button" /\ ~lastOp.skip /\ lastOp.batch = << <<8, TRUE>> >>
    /\ Len(lastOp.sends) = 1
    /\ lastOp.sends[1].buf = <<AxisIDLE, AxisIDLE, 0, 1, 0>>

\* the bytes a report needs for na axes and nb buttons
SpecNeeded(na, nb) == na + ((nb + 7) \div 8)

\* the first marker line of the last construction asks for a report shorter
\* than its axes and buttons need
SpecTooShort ==
    /\ Loaded
    /\ LET ints == SpecInts(SpecLine(lastOp.file)) IN
       Len(ints) >= 4 /\ ints[4] < SpecNeeded(ints[1], ints[2])

\* C17: every constructed engine has a report length of at least the axis
\* count plus the button count divided by 8, rounded up; a configuration line
\* with a smaller report length yields no engine.
C17_ReportLength ==
    /\ phase = "ready" => report_size >= SpecNeeded(num_axes, num_buttons)
    /\ SpecTooShort => phase = "failed"

C17_Witness ==
    /\ SpecTooShort
    /\ config = <<2, 3, 2>>
    /\ phase = "failed" /\ lastOp.err = "StructError" /\ lastOp.sends = <<>>

\* C18: update_axis with skip_validation=False changes an axis only for
\* pairs whose index is in 0..num_axes-1; a pair with any other index,
\* negative ones included, is rejected and no axis value is modified.
\* Stated for calls of one pair of value 200 with defer=False under a
\* configuration with axes, in which no send_report call failed.
C18_AxisRange ==
    [][(/\ IsCall /\ lastOp'.op = "update_axis" /\ ~lastOp'.skip /\ OnePair(lastOp')
        /\ Value(lastOp') = 200 /\ ~lastOp'.defer
        /\ num_axes > 0 /\ Index(lastOp') \notin 0..(num_axes - 1)
        /\ \A i \in 1..Len(lastOp'.sends) : lastOp'.sends[i].ok) =>
            /\ lastOp'.err \in {"AxisIndex", "AxisValue"}
            /\ lastOp'.sends = <<>>
            /\ axis_states' = axis_states]_vars

\* a step that is a call whose send_report call failed
SendFails == IsCall /\ lastOp'.sends # <<>> /\ ~lastOp'.sends[1].ok

\* a step that is update() after a call whose send_report call failed
RetryCycle ==
    /\ lastOp.err = "OSError"
    /\ IsCall /\ lastOp'.op = "update" /\ ~lastOp'.always

\* C19 as stated: after a report cycle whose send_report call failed, the next
\* report cycle that is not forced, on the same inputs, calls send_report
\* again.  Stated for configurations with axes.
C19_Original == [][(RetryCycle /\ num_axes > 0) => lastOp'.sends # <<>>]_vars

\* C19: when send_report fails in a report cycle the call raises that error,
\* last_report is unchanged and the inputs the call applied are kept (and
\* serialized in the report buffer); the next report cycle that is not forced,
\* on the same inputs, calls send_report again with that report if it differs
\* from last_report, that is, unless the failed transmission was a forced one
\* of the report last accepted.
C19_SendFailure ==
    [][/\ SendFails =>
            /\ lastOp'.err = "OSError"
            /\ Len(lastOp'.sends) = 1
            /\ last_report' = last_report
            /\ transmitted' = transmitted
            /\ report' = SpecReport'
            /\ lastOp'.sends[1].buf = report'
            /\ (/\ lastOp'.op = "update_axis" /\ OnePair(lastOp')
                /\ Index(lastOp') \in 0..(num_axes - 1)) =>
                    axis_states'[SpecSlot(Index(lastOp')) + 1] = Value(lastOp')
       /\ RetryCycle =>
            /\ UNCHANGED <<axis_states, button_states>>
            /\ lastOp'.sends # <<>> <=> report # last_report
            /\ \A i \in 1..Len(lastOp'.sends) : lastOp'.sends[i].buf = report]_vars

C19_Witness ==
    /\ phase = "ready" /\ nOps = 2
    /\ prev.op = "update_axis" /\ prev.err = "OSError"
    /\ lastOp.op = "update" /\ ~lastOp.always
    /\ Len(lastOp.sends) = 1 /\ lastOp.sends[1].ok
    /\ lastOp.sends[1].buf = SpecReport
    /\ lastOp.sends[1].buf # IdleReport
    /\ last_report = lastOp.sends[1].buf

\* the errors of the two validation methods
ValidationErrors == {"NoAxes", "AxisIndex", "AxisValue", "NoButtons", "ButtonIndex"}

\* a call of update_axis or update_button that a pair made fail
Rejected(call) ==
    call.op \in {"update_axis", "update_button"} /\ call.err \in ValidationErrors

\* C20: a call that fails validation runs no report cycle, with defer=False
\* too: send_report is not called and last_report and the report buffer are
\* unchanged.  The pairs applied before the failing one stay stored, and the
\* next report cycle serializes them and sends the report if it differs from
\* last_report (button 0 of a rejected update_button((0, True), ...) is set
\* in whatever update() sends next).
C20_RejectedCall ==
    [][/\ (IsInputCall /\ Rejected(lastOp')) =>
            /\ ~lastOp'.cycle
            /\ lastOp'.sends = <<>>
            /\ last_report' = last_report
            /\ transmitted' = transmitted
            /\ report' = report
       /\ (Rejected(lastOp) /\ lastOp.applied > 0 /\ IsCall /\ lastOp'.cycle) =>
            /\ SpecReport' # last_report => Len(lastOp'.sends) = 1
            /\ \A i \in 1..Len(lastOp'.sends) :
                  /\ lastOp'.sends[i].buf = SpecReport'
                  /\ (/\ lastOp.op = "update_button" /\ lastOp.batch[1] = <<0, TRUE>>
                      /\ lastOp'.op = "update") =>
                        BitOf(lastOp'.sends[i].buf[num_axes + 1], 0) = 1]_vars

C20_Witness ==
    /\ phase = "ready" /\ nOps = 2
    /\ prev.op = "update_button" /\ ~prev.defer /\ prev.err = "rejected"
    /\ lastOp.op = "update" /\ ~lastOp.always
    /\ Len(lastOp.sends) = 1 /\ lastOp.sends[1].ok
    /\ BitOf(lastOp.sends[1].buf[num_axes + 1], 0) = 1
    /\ last_report = lastOp.sends[1].buf

====
